---------------------------- MODULE Spec2Model ----------------------------
(***************************************************************************)
(* Phishing Domain Watchdog (scripts/update.py): the classification and    *)
(* scoring functions and the ingestion loop of main(), as a state machine. *)
(*                                                                         *)
(* Domains, keywords and brands are strings.  A similarity is an exact     *)
(* fraction <<num, den>> until is_suspicious rounds it to hundredths; the  *)
(* fields brand_similarity hold hundredths (83 for 0.83).  Python's None   *)
(* is the empty tuple and a present value x is <<x>>.                      *)
(***************************************************************************)
EXTENDS Integers, Sequences, FiniteSets, TLC

(***************************************************************************)
(* CONFIGURATION                                                           *)
(***************************************************************************)
KEYWORDS ==
    << "login", "signin", "sign-in", "logon", "log-on", "authenticate",
       "verification", "verify", "confirm", "validate", "secure",
       "security", "protected", "safety", "safe", "ssl", "https",
       "encryption", "bank", "banking", "payment", "wallet", "crypto",
       "bitcoin", "ethereum", "finance", "transfer", "wire", "invoice",
       "billing", "account", "support", "helpdesk", "service",
       "customer", "help", "assistance", "recovery", "restore",
       "unlock", "suspended", "disabled", "urgent", "alert", "warning",
       "notice", "update", "action", "required", "immediately",
       "expire", "expired", "limited", "password", "passwd",
       "credential", "reset", "recover", "otp", "token", "2fa", "mfa",
       "webmail", "mailbox", "outlook", "office365", "microsoft365",
       "icloud", "appleid", "google-", "facebook-", "instagram-" >>

BRANDS ==
    << "paypal", "amazon", "apple", "google", "microsoft", "facebook",
       "instagram", "twitter", "netflix", "spotify", "dropbox",
       "linkedin", "chase", "wellsfargo", "bankofamerica", "citibank",
       "usbank", "coinbase", "binance", "kraken", "metamask", "opensea",
       "outlook", "office365", "onedrive", "sharepoint", "teams",
       "icloud", "appstore", "itunes", "imessage", "whatsapp",
       "telegram", "signal", "discord", "slack", "adobe", "zoom",
       "webex", "docusign", "salesforce", "fedex", "ups", "usps", "dhl",
       "att", "verizon", "tmobile", "comcast", "xfinity" >>

\* 0.8, in hundredths
BRAND_SIMILARITY_THRESHOLD == 80

\* the entries `existing[-1000:]` keeps: 1000 in the source, fewer here so
\* that a run of a few candidates, and a single run, can exceed it
KeepLatest == 3

NONE == <<>>

Some(x) == <<x>>

Min2(a, b) == IF a <= b THEN a ELSE b

Max2(a, b) == IF a >= b THEN a ELSE b

Range(s) == {s[i] : i \in 1..Len(s)}

\* Python's `k in d` on strings
Contains(k, d) ==
    \E i \in 1..(Len(d) - Len(k) + 1) : SubSeq(d, i, i + Len(k) - 1) = k

\* a mistake: s[:n] for s[-n:]
FirstN(s, n) == IF Len(s) <= n THEN s ELSE SubSeq(s, 1, n)

\* Python's s[-n:]
LastN(s, n) == IF Len(s) <= n THEN s ELSE SubSeq(s, Len(s) - n + 1, Len(s))

SelectKeywords(lexicon, d) == SelectSeq(lexicon, LAMBDA k : Contains(k, d))

(***************************************************************************)
(* get_domain_base: domain.split(".")[-2] when there are two parts or      *)
(* more, else the domain.                                                  *)
(***************************************************************************)
DotsOf(d) == {i \in 1..Len(d) : SubSeq(d, i, i) = "."}

MaxOf(S) == CHOOSE m \in S : \A x \in S : x <= m

get_domain_base(domain) ==
    LET dots == DotsOf(domain) IN
    IF dots = {} THEN domain
    ELSE LET last == MaxOf(dots)
             before == {i \in dots : i < last}
             prev == IF before = {} THEN 0 ELSE MaxOf(before)
         IN  SubSeq(domain, prev + 1, last - 1)

(***************************************************************************)
(* Levenshtein.distance, row by row: row[i + 1] is the distance between    *)
(* the first i characters of a and the characters of b consumed so far.    *)
(***************************************************************************)
RECURSIVE LevRow(_, _, _, _)
LevRow(prev, a, ch, acc) ==
    IF Len(acc) = Len(prev) THEN acc
    ELSE LET i == Len(acc)
             cost == IF SubSeq(a, i, i) = ch THEN 0 ELSE 1
             cell == Min2(Min2(acc[i] + 1, prev[i + 1] + 1), prev[i] + cost)
         IN  LevRow(prev, a, ch, Append(acc, cell))

RECURSIVE LevRows(_, _, _, _)
LevRows(a, b, j, prev) ==
    IF j > Len(b) THEN prev[Len(a) + 1]
    ELSE LevRows(a, b, j + 1, LevRow(prev, a, SubSeq(b, j, j), <<prev[1] + 1>>))

levenshtein_distance(a, b) == LevRows(a, b, 1, [k \in 1..(Len(a) + 1) |-> k - 1])

\* a/b > c/d for fractions with positive denominators
FracGT(x, y) == x[1] * y[2] > y[1] * x[2]

(***************************************************************************)
(* calculate_brand_similarity.  BrandStep is one pass through the body of  *)
(* `for brand in BRANDS`: st.returned is set by the `return brand, 1.0`    *)
(* inside the loop, after which no later brand is looked at.  BrandLoop    *)
(* runs the passes for BRANDS[lo..hi] in lexicon order.                    *)
(***************************************************************************)
\* a mistake: the pass without the substring test, the edit distance alone
BrandStepDistanceOnly(domain_base, st, brand) ==
    LET max_len == Max2(Len(domain_base), Len(brand)) IN
    IF st.returned THEN st
    ELSE IF max_len = 0 THEN st
    ELSE LET dist == levenshtein_distance(domain_base, brand)
             similarity == <<max_len - dist, max_len>>
         IN  IF FracGT(similarity, st.best_score)
             THEN [returned |-> FALSE, best_match |-> Some(brand), best_score |-> similarity]
             ELSE st

BrandStep(domain_base, st, brand) ==
    LET max_len == Max2(Len(domain_base), Len(brand)) IN
    IF st.returned THEN st
    ELSE IF Contains(brand, domain_base)
         THEN [returned |-> TRUE, best_match |-> Some(brand), best_score |-> <<1, 1>>]
    ELSE IF max_len = 0 THEN st
    ELSE LET dist == levenshtein_distance(domain_base, brand)
             similarity == <<max_len - dist, max_len>>
         IN  IF FracGT(similarity, st.best_score)
             THEN [returned |-> FALSE, best_match |-> Some(brand), best_score |-> similarity]
             ELSE st

RECURSIVE BrandLoop(_, _, _, _)
BrandLoop(domain_base, lo, hi, st) ==
    IF lo > hi THEN st
    ELSE IF lo = hi THEN BrandStep(domain_base, st, BRANDS[lo])
    ELSE LET mid == (lo + hi) \div 2
             first == BrandLoop(domain_base, lo, mid, st)
         IN  IF first.returned THEN first
             ELSE BrandLoop(domain_base, mid + 1, hi, first)

calculate_brand_similarity(domain, has_levenshtein) ==
    IF ~has_levenshtein THEN <<NONE, <<0, 1>>>>
    ELSE LET st == BrandLoop(get_domain_base(domain), 1, Len(BRANDS),
                             [returned |-> FALSE, best_match |-> NONE, best_score |-> <<0, 1>>])
         IN  <<st.best_match, st.best_score>>

\* round(similarity, 2), in hundredths
Round2(f) == (200 * f[1] + f[2]) \div (2 * f[2])

(***************************************************************************)
(* is_suspicious: the verdict record.                                      *)
(***************************************************************************)
\* a mistake: `and` for `or` in line 200
is_suspicious_both(domain, has_levenshtein) ==
    LET matched_keywords == SelectKeywords(KEYWORDS, domain)
        bs == calculate_brand_similarity(domain, has_levenshtein)
        brand_alert == bs[1] # NONE
                       /\ 100 * bs[2][1] >= BRAND_SIMILARITY_THRESHOLD * bs[2][2]
    IN  IF matched_keywords # <<>> /\ brand_alert
        THEN [suspicious |-> TRUE,
              keywords |-> matched_keywords,
              brand_match |-> bs[1],
              brand_similarity |-> Some(Round2(bs[2]))]
        ELSE [suspicious |-> FALSE]

\* a mistake: the best brand is reported whether or not it reaches the threshold
is_suspicious_any_brand(domain, has_levenshtein) ==
    LET matched_keywords == SelectKeywords(KEYWORDS, domain)
        bs == calculate_brand_similarity(domain, has_levenshtein)
        brand_alert == bs[1] # NONE
                       /\ 100 * bs[2][1] >= BRAND_SIMILARITY_THRESHOLD * bs[2][2]
    IN  IF matched_keywords # <<>> \/ brand_alert
        THEN [suspicious |-> TRUE,
              keywords |-> matched_keywords,
              brand_match |-> bs[1],
              brand_similarity |-> IF bs[1] # NONE THEN Some(Round2(bs[2])) ELSE NONE]
        ELSE [suspicious |-> FALSE]

is_suspicious(domain, has_levenshtein) ==
    LET matched_keywords == SelectKeywords(KEYWORDS, domain)
        bs == calculate_brand_similarity(domain, has_levenshtein)
        brand_match == bs[1]
        similarity == bs[2]
        brand_alert == brand_match # NONE
                       /\ 100 * similarity[1] >= BRAND_SIMILARITY_THRESHOLD * similarity[2]
    IN  IF matched_keywords # <<>> \/ brand_alert
        THEN [suspicious |-> TRUE,
              keywords |-> matched_keywords,
              brand_match |-> IF brand_alert THEN brand_match ELSE NONE,
              brand_similarity |-> IF brand_alert THEN Some(Round2(similarity)) ELSE NONE]
        ELSE [suspicious |-> FALSE]

(***************************************************************************)
(* calculate_threat_score and get_threat_level                             *)
(***************************************************************************)
high_risk == <<"login", "password", "passwd", "bank", "crypto", "wallet", "verify", "secure">>

MxPoints(mx) == IF mx THEN 25 ELSE 0

\* a mistake: a similarity of 1.0 is taken for the brand's own domain
BrandPointsBelowOne(brand_similarity) ==
    LET similarity == IF brand_similarity = NONE THEN 0 ELSE brand_similarity[1]
    IN  IF similarity > 0 /\ similarity < 100 THEN (similarity * 35) \div 100 ELSE 0

\* entry.get("brand_similarity", 0) or 0, then int(similarity * 35)
BrandPoints(brand_similarity) ==
    LET similarity == IF brand_similarity = NONE THEN 0 ELSE brand_similarity[1]
    IN  IF similarity > 0 THEN (similarity * 35) \div 100 ELSE 0

\* a mistake: the cap of 25 is left out
KeywordPointsUncapped(keywords) == Len(keywords) * 5

KeywordPoints(keywords) == Min2(Len(keywords) * 5, 25)

HighRiskPoints(keywords) ==
    IF \E i \in 1..Len(keywords) : keywords[i] \in Range(high_risk) THEN 15 ELSE 0

calculate_threat_score(entry) ==
    Min2(MxPoints(entry.mx) + BrandPoints(entry.brand_similarity)
           + KeywordPoints(entry.keywords) + HighRiskPoints(entry.keywords),
         100)

get_threat_level(score) ==
    IF score >= 75 THEN "CRITICAL"
    ELSE IF score >= 50 THEN "HIGH"
    ELSE IF score >= 25 THEN "MEDIUM"
    ELSE "LOW"

(***************************************************************************)
(* get_recent_domains.  `results` is the certificates returned by the      *)
(* crt.sh queries, in order; a query that fails contributes none.  A       *)
(* certificate is [recent, common_name, name_value]: recent is the outcome *)
(* of the not_before test and name_value the lines of the SAN field.       *)
(***************************************************************************)
UPPER == "ABCDEFGHIJKLMNOPQRSTUVWXYZ"

LOWER == "abcdefghijklmnopqrstuvwxyz"

LowerChar(ch) ==
    IF \E i \in 1..Len(UPPER) : SubSeq(UPPER, i, i) = ch
    THEN LET i == CHOOSE i \in 1..Len(UPPER) : SubSeq(UPPER, i, i) = ch
         IN  SubSeq(LOWER, i, i)
    ELSE ch

\* str.lower()
RECURSIVE Lower(_)
Lower(s) == IF s = "" THEN "" ELSE LowerChar(SubSeq(s, 1, 1)) \o Lower(SubSeq(s, 2, Len(s)))

\* str.strip()
RECURSIVE Strip(_)
Strip(s) ==
    IF s = "" THEN ""
    ELSE IF SubSeq(s, 1, 1) = " " THEN Strip(SubSeq(s, 2, Len(s)))
    ELSE IF SubSeq(s, Len(s), Len(s)) = " " THEN Strip(SubSeq(s, 1, Len(s) - 1))
    ELSE s

StartsWith(s, prefix) == Len(s) >= Len(prefix) /\ SubSeq(s, 1, Len(prefix)) = prefix

\* the names one certificate adds to all_domains, in the order of the adds
NamesOfCert(c) ==
    IF ~c.recent THEN <<>>
    ELSE (IF c.common_name # "" /\ Contains(".", c.common_name)
          THEN <<Strip(Lower(c.common_name))>> ELSE <<>>)
         \o SelectSeq([i \in 1..Len(c.name_value) |-> Lower(Strip(c.name_value[i]))],
                      LAMBDA d : Contains(".", d) /\ ~StartsWith(d, "*"))

\* every name added to all_domains by the run, in the order of the adds
RECURSIVE FoundNames(_)
FoundNames(results) ==
    IF results = <<>> THEN <<>>
    ELSE NamesOfCert(Head(results)) \o FoundNames(Tail(results))

\* the lists list(s) can be: the elements of s, each once, in any order
ListsOf(s) ==
    {l \in [1..Cardinality(s) -> s] : \A i, j \in 1..Cardinality(s) : l[i] = l[j] => i = j}

\* a mistake: the names are collected in a list, not in a set
get_recent_domains_list(results) == {FoundNames(results)}

\* the lists get_recent_domains can return: list(all_domains)
get_recent_domains(results) == ListsOf(Range(FoundNames(results)))

\* the sample list of main(test_mode=True)
TestDomains ==
    << "secure-paypal-login.com", "amazon-account-verify.net", "googl3.com",
       "microsft-support.com", "bank-secure-login.org",
       "crypto-wallet-recovery.io", "netflix-password-reset.com",
       "faceb00k-verify.com", "apple-id-confirm.net",
       "coinbase-support-help.com", "legitimate-website.com",
       "random-domain.org" >>

(***************************************************************************)
(* The entry main() builds for a suspicious domain (lines 599-611).        *)
(***************************************************************************)
MakeEntry(d, result, mx, has_ip, now) ==
    LET e == [domain |-> d, mx |-> mx, has_ip |-> has_ip,
              keywords |-> result.keywords,
              brand_match |-> result.brand_match,
              brand_similarity |-> result.brand_similarity,
              date |-> now]
        threat_score == calculate_threat_score(e)
    IN  [domain |-> e.domain, mx |-> e.mx, has_ip |-> e.has_ip,
         keywords |-> e.keywords, brand_match |-> e.brand_match,
         brand_similarity |-> e.brand_similarity, date |-> e.date,
         threat_score |-> threat_score,
         threat_level |-> get_threat_level(threat_score)]

DomainsOf(history) == {history[i].domain : i \in 1..Len(history)}

\* generate_page: safe_name, the file the page is written to
RECURSIVE SafeName(_)
SafeName(s) ==
    IF s = "" THEN ""
    ELSE (IF SubSeq(s, 1, 1) \in {"/", "\\"} THEN "_" ELSE SubSeq(s, 1, 1))
         \o SafeName(SubSeq(s, 2, Len(s)))

\* save_feed: the items of the feed, newest first
FeedItem(d) ==
    [domain |-> d.domain, date |-> d.date, mx |-> d.mx, keywords |-> d.keywords,
     brand_match |-> d.brand_match, brand_similarity |-> d.brand_similarity,
     threat_score |-> d.threat_score,
     threat_level |-> get_threat_level(d.threat_score)]

FeedOf(data) ==
    LET tail == LastN(data, 50)
    IN  [i \in 1..Len(tail) |-> FeedItem(tail[Len(tail) + 1 - i])]

(***************************************************************************)
(* Bounds of the model                                                     *)
(***************************************************************************)
\* runs of main() in a behaviour
MaxRuns == 2

\* certificates returned to one run
MaxCerts == 2

(***************************************************************************)
(* The certificates the queries may return.                                *)
(***************************************************************************)
Certs ==
    { [recent |-> TRUE, common_name |-> "ssl.co", name_value |-> <<" SSL.co", "*.ssl.co">>],
      [recent |-> TRUE, common_name |-> "localhost", name_value |-> <<"a.b">>],
      [recent |-> TRUE, common_name |-> "", name_value |-> <<"paypal-ssl1.co">>],
      [recent |-> FALSE, common_name |-> "bank.io", name_value |-> <<"ssl.co">>] }

CertLists == UNION {[1..n -> Certs] : n \in 0..MaxCerts}

(***************************************************************************)
(* A history of KeepLatest entries that earlier runs have stored: entry i  *)
(* is the one main() builds for the domain paypal-ssl<i>.co.  A time is    *)
(* <<run, position in the run>>; these entries are dated before run 1.     *)
(***************************************************************************)
DIGITS == "0123456789"

RECURSIVE Decimal(_)
Decimal(n) ==
    IF n < 10 THEN SubSeq(DIGITS, n + 1, n + 1)
    ELSE Decimal(n \div 10) \o SubSeq(DIGITS, (n % 10) + 1, (n % 10) + 1)

EarlierDomain(i) == "paypal-ssl" \o Decimal(i) \o ".co"

EarlierEntry(i, has_levenshtein) ==
    MakeEntry(EarlierDomain(i), is_suspicious(EarlierDomain(i), has_levenshtein),
              FALSE, TRUE, <<0, i>>)

FullHistory(has_levenshtein) == [i \in 1..KeepLatest |-> EarlierEntry(i, has_levenshtein)]

\* the histories a behaviour starts from, worked out once
Histories == [h \in BOOLEAN |-> {<<>>, FullHistory(h)}]

\* is_suspicious on the candidates of the model, worked out once
Candidates == Range(TestDomains) \cup UNION {Range(NamesOfCert(c)) : c \in Certs}

Verdicts == [h \in BOOLEAN |-> [d \in Candidates |-> is_suspicious(d, h)]]

\* calculate_brand_similarity on the domains a history of the model can hold
BestBrands ==
    [h \in BOOLEAN |->
       [d \in Candidates \cup {EarlierDomain(i) : i \in 1..KeepLatest} |->
          calculate_brand_similarity(d, h)]]

(***************************************************************************)
(* State                                                                   *)
(***************************************************************************)
VARIABLES
    HAS_LEVENSHTEIN,   \* whether `from Levenshtein import distance` succeeds
    stored,            \* data/domains.json: the history
    feed,              \* data/feed.json
    pages,             \* the files under check/
    pc,                \* "idle", "loop", "done" or "crashed" (main left by an exception)
    runs,              \* runs of main() started
    test_mode,
    new_domains,
    existing,
    existing_domains,
    added_count,
    pos,               \* the position of `for d in new_domains`
    result,            \* the verdict of the last candidate classified
    last_domains,      \* new_domains of the last run that reached save_json
    last_dropped,      \* the domains whose entries that run's existing[-1000:] dropped
    dropped,           \* the domains whose entries any run has dropped
    found_twice,       \* the queries of this run found some name more than once
    same_again,        \* the last run that saved had the new_domains of the one before
    c_domain,          \* is_suspicious on its own: the argument
    c_result,          \*   and the verdict returned
    s_entry,           \* calculate_threat_score on its own: the argument
    s_score,           \*   the score returned
    s_level,           \*   and its get_threat_level
    b_domain,          \* calculate_brand_similarity on its own: the argument
    b_result           \*   and the pair returned

mainVars == <<stored, feed, pages, pc, runs, test_mode, new_domains, existing,
              existing_domains, added_count, pos, result, last_domains,
              last_dropped, dropped, found_twice, same_again>>

classifyVars == <<c_domain, c_result>>

scoreVars == <<s_entry, s_score, s_level>>

brandVars == <<b_domain, b_result>>

vars == <<HAS_LEVENSHTEIN, mainVars, classifyVars, scoreVars, brandVars>>

MainIdle(history) ==
    /\ stored = history
    /\ feed = FeedOf(history)
    /\ pages = {SafeName(history[i].domain) : i \in 1..Len(history)}
    /\ pc = "idle"
    /\ runs = 0
    /\ test_mode = FALSE
    /\ new_domains = <<>>
    /\ existing = <<>>
    /\ existing_domains = {}
    /\ added_count = 0
    /\ pos = 1
    /\ result = NONE
    /\ last_domains = NONE
    /\ last_dropped = {}
    /\ dropped = {}
    /\ found_twice = FALSE
    /\ same_again = FALSE

ClassifyIdle == c_domain = "" /\ c_result = NONE

ScoreIdle == s_entry = NONE /\ s_score = NONE /\ s_level = NONE

BrandIdle == b_domain = "" /\ b_result = NONE

Init ==
    /\ HAS_LEVENSHTEIN \in BOOLEAN
    /\ \E history \in Histories[HAS_LEVENSHTEIN] : MainIdle(history)
    /\ ClassifyIdle
    /\ ScoreIdle
    /\ BrandIdle

(***************************************************************************)
(* main(), lines 552-581: the candidates and the stored history are read.  *)
(***************************************************************************)
Begin(tm, candidates, twice) ==
    /\ pc \in {"idle", "done", "crashed"}
    /\ runs < MaxRuns
    /\ runs' = runs + 1
    /\ test_mode' = tm
    /\ new_domains' = candidates
    /\ found_twice' = twice
    /\ existing' = stored
    /\ existing_domains' = DomainsOf(stored)
    /\ added_count' = 0
    /\ pos' = 1
    /\ result' = NONE
    /\ pc' = "loop"
    /\ UNCHANGED <<HAS_LEVENSHTEIN, stored, feed, pages, last_domains,
                   last_dropped, dropped, same_again, classifyVars, scoreVars, brandVars>>

StartTest == Begin(TRUE, TestDomains, FALSE)

StartFetch ==
    \E results \in CertLists :
        \E l \in get_recent_domains(results) :
            Begin(FALSE, l, Len(FoundNames(results)) > Cardinality(Range(FoundNames(results))))

(***************************************************************************)
(* One pass through the body of `for d in new_domains`, lines 583-616.     *)
(***************************************************************************)
\* a mistake: no candidate is taken for processed
NeverProcessed(d, known) == FALSE

\* line 585: `d in existing_domains`
AlreadyProcessed(d, known) == d \in known

\* datetime.now(timezone.utc) while candidate `pos` of run `runs` is handled
Now == <<runs, pos>>

InLoop == pc = "loop" /\ pos <= Len(new_domains)

\* lines 585-586
SkipKnown ==
    /\ InLoop
    /\ AlreadyProcessed(new_domains[pos], existing_domains)
    /\ pos' = pos + 1
    /\ UNCHANGED <<HAS_LEVENSHTEIN, stored, feed, pages, pc, runs, test_mode,
                   new_domains, existing, existing_domains, added_count, result,
                   last_domains, last_dropped, dropped, found_twice, same_again,
                   classifyVars, scoreVars, brandVars>>

\* lines 588-591
Clean ==
    /\ InLoop
    /\ ~AlreadyProcessed(new_domains[pos], existing_domains)
    /\ result' = Some(Verdicts[HAS_LEVENSHTEIN][new_domains[pos]])
    /\ ~result'[1].suspicious
    /\ pos' = pos + 1
    /\ UNCHANGED <<HAS_LEVENSHTEIN, stored, feed, pages, pc, runs, test_mode,
                   new_domains, existing, existing_domains, added_count,
                   last_domains, last_dropped, dropped, found_twice, same_again,
                   classifyVars, scoreVars, brandVars>>

\* lines 588-616; has_mx and has_a_record answer False when the lookup fails.
\* page_written is FALSE when generate_page raises (open or makedirs fails):
\* nothing catches it, and main ends there.
Suspicious(mx_found, a_found, page_written) ==
    /\ InLoop
    /\ ~AlreadyProcessed(new_domains[pos], existing_domains)
    /\ result' = Some(Verdicts[HAS_LEVENSHTEIN][new_domains[pos]])
    /\ result'[1].suspicious
    /\ LET d == new_domains[pos]
           entry == MakeEntry(d, result'[1],
                              IF test_mode THEN FALSE ELSE mx_found,
                              IF test_mode THEN TRUE ELSE a_found,
                              Now)
       IN  /\ existing' = Append(existing, entry)
           /\ IF page_written
              THEN /\ pages' = pages \cup {SafeName(d)}
                   /\ added_count' = added_count + 1
                   /\ pos' = pos + 1
                   /\ pc' = pc
              ELSE /\ pc' = "crashed"
                   /\ UNCHANGED <<pages, added_count, pos>>
    /\ UNCHANGED <<HAS_LEVENSHTEIN, stored, feed, runs, test_mode, new_domains,
                   existing_domains, last_domains, last_dropped, dropped,
                   found_twice, same_again, classifyVars, scoreVars, brandVars>>

Append1 == \E mx_found, a_found \in BOOLEAN : Suspicious(mx_found, a_found, TRUE)

PageFails == \E mx_found, a_found \in BOOLEAN : Suspicious(mx_found, a_found, FALSE)

(***************************************************************************)
(* lines 618-622: the history is cut to its last entries and saved.        *)
(***************************************************************************)
Finish ==
    /\ pc = "loop"
    /\ pos > Len(new_domains)
    /\ existing' = LastN(existing, KeepLatest)
    /\ stored' = existing'
    /\ feed' = FeedOf(existing')
    /\ pc' = "done"
    /\ last_domains' = Some(new_domains)
    /\ last_dropped' = DomainsOf(SubSeq(existing, 1, Len(existing) - Len(existing')))
    /\ dropped' = dropped \cup last_dropped'
    /\ same_again' = (last_domains = Some(new_domains))
    /\ UNCHANGED <<HAS_LEVENSHTEIN, pages, runs, test_mode, new_domains,
                   existing_domains, added_count, pos, result, found_twice,
                   classifyVars, scoreVars, brandVars>>

Next ==
    \/ StartTest
    \/ StartFetch
    \/ SkipKnown
    \/ Clean
    \/ Append1
    \/ PageFails
    \/ Finish

Spec == Init /\ [][Next]_vars

(***************************************************************************)
(* is_suspicious on its own, on every string of at most MaxLen characters  *)
(* of Alphabet and on the domains below.                                   *)
(***************************************************************************)
MaxLen == 4

Alphabet == {"u", "p", "s", "l", "."}

RECURSIVE Words(_)
Words(n) ==
    IF n = 0 THEN {""}
    ELSE Words(n - 1) \cup {w \o ch : w \in Words(n - 1), ch \in Alphabet}

ClassifyDomains ==
    Words(MaxLen) \cup Candidates
    \cup {"uspps.com", "appl.io", "chasse.co", "upsatt.us", "usps-ssl.com",
          "nodot", ".com", "x."}

Classify ==
    /\ c_result = NONE
    /\ c_result' = Some(is_suspicious(c_domain, HAS_LEVENSHTEIN))
    /\ UNCHANGED <<HAS_LEVENSHTEIN, mainVars, c_domain, scoreVars, brandVars>>

InitClassify ==
    /\ HAS_LEVENSHTEIN \in BOOLEAN
    /\ MainIdle(<<>>)
    /\ c_domain \in ClassifyDomains
    /\ c_result = NONE
    /\ ScoreIdle
    /\ BrandIdle

NextClassify == Classify

SpecClassify == InitClassify /\ [][NextClassify]_vars

(***************************************************************************)
(* calculate_threat_score and get_threat_level on their own, on entries    *)
(* that start with at most MaxKeywords keywords.                           *)
(***************************************************************************)
MaxKeywords == 6

ScoreKeywords == {"login", "update"}

\* brand_similarity: None, or a value of [0, 1] in hundredths
Similarities == {NONE} \cup {Some(v) : v \in 0..100}

ScoreEntries ==
    [mx : BOOLEAN, brand_similarity : Similarities,
     keywords : UNION {[1..n -> ScoreKeywords] : n \in 0..MaxKeywords}]
    \cup {[mx |-> TRUE, brand_similarity |-> Some(100),
           keywords |-> <<"login", "password", "bank", "crypto", "verify">>],
          [mx |-> TRUE, brand_similarity |-> Some(80), keywords |-> <<"secure">>]}

Scored(e) ==
    /\ s_entry' = Some(e)
    /\ s_score' = Some(calculate_threat_score(e))
    /\ s_level' = Some(get_threat_level(s_score'[1]))
    /\ UNCHANGED <<HAS_LEVENSHTEIN, mainVars, classifyVars, brandVars>>

Score == s_score = NONE /\ Scored(s_entry[1])

\* one more matched high-risk keyword
AddHighRiskKeyword ==
    /\ s_score # NONE
    /\ Len(s_entry[1].keywords) <= MaxKeywords
    /\ \E k \in Range(high_risk) \cap ScoreKeywords :
           Scored([s_entry[1] EXCEPT !.keywords = Append(@, k)])

\* a larger brand_similarity
RaiseSimilarity ==
    /\ s_score # NONE
    /\ \E v \in 1..100 :
           /\ (IF s_entry[1].brand_similarity = NONE THEN 0
               ELSE s_entry[1].brand_similarity[1]) < v
           /\ Scored([s_entry[1] EXCEPT !.brand_similarity = Some(v)])

InitScore ==
    /\ HAS_LEVENSHTEIN = TRUE
    /\ MainIdle(<<>>)
    /\ ClassifyIdle
    /\ s_entry \in {Some(e) : e \in ScoreEntries}
    /\ s_score = NONE
    /\ s_level = NONE
    /\ BrandIdle

NextScore == Score \/ AddHighRiskKeyword \/ RaiseSimilarity

SpecScore == InitScore /\ [][NextScore]_vars

(***************************************************************************)
(* calculate_brand_similarity on its own, on every string of at most       *)
(* MaxLen characters of Alphabet and on the domains below, whose base      *)
(* holds one brand, two brands in either order, or none.                   *)
(***************************************************************************)
BrandDomains ==
    Words(MaxLen)
    \cup {"upsatt.us", "attups.com", "paypal-amazon.com", "amazonpaypal.net",
          "uspsups.co", "appleups.io", "my.dhl.com", "dhl.example.com",
          "xfinity", "bankofamerica.com", "usbank-chase.com", "googl3.com",
          "microsft-support.com", "zoom.us", "a.b"}

Similarity ==
    /\ b_result = NONE
    /\ b_result' = Some(calculate_brand_similarity(b_domain, HAS_LEVENSHTEIN))
    /\ UNCHANGED <<HAS_LEVENSHTEIN, mainVars, classifyVars, scoreVars, b_domain>>

InitBrand ==
    /\ HAS_LEVENSHTEIN \in BOOLEAN
    /\ MainIdle(<<>>)
    /\ ClassifyIdle
    /\ ScoreIdle
    /\ b_domain \in BrandDomains
    /\ b_result = NONE

NextBrand == Similarity

SpecBrand == InitBrand /\ [][NextBrand]_vars

(***************************************************************************)
(* Properties of the ingestion loop, under Spec                            *)
(***************************************************************************)
\* the step that saves: lines 618-622
Saves == pc = "loop" /\ pc' = "done"

\* the entries the loop has appended in this run
Added == SubSeq(existing, Len(stored) + 1, Len(existing))

DomainSeq(history) == [i \in 1..Len(history) |-> history[i].domain]

\* C1: no two entries of the stored history have the same domain, whatever
\* the queries found, names found more than once included.
C1_UniqueDomains == Cardinality(DomainsOf(stored)) = Len(stored)

\* C1 witness: a run whose queries found a name twice has saved entries it
\* appended, that name's among them.
C1_Witness ==
    /\ pc = "done"
    /\ found_twice
    /\ added_count > 0
    /\ \E i \in 1..Len(stored) : stored[i].date[1] = runs

\* C2 as claimed: a run that saves with the new_domains of the last run that
\* saved leaves the stored history as that run left it.
C2_Idempotent ==
    [][(Saves /\ last_domains = Some(new_domains)) => stored' = stored]_vars

\* C2 amended: the same, when the cut of the earlier run dropped no entry of
\* a domain of new_domains.
C2_IdempotentUnlessDropped ==
    [][(Saves /\ last_domains = Some(new_domains)
              /\ Range(new_domains) \cap last_dropped = {})
          => stored' = stored]_vars

\* C2 witness: the second of two runs with the same new_domains has saved,
\* and the history holds an entry the first of them appended.
C2_Witness ==
    /\ pc = "done"
    /\ same_again
    /\ Range(new_domains) \cap last_dropped = {}
    /\ \E i \in 1..Len(stored) :
           /\ stored[i].domain \in Range(new_domains)
           /\ stored[i].date[1] >= 1
           /\ stored[i].date[1] < runs

\* C3: the history a run saves is the last KeepLatest entries of the history it
\* loaded followed by one entry for each candidate that is suspicious and
\* not in the loaded history, in the order of new_domains.
C3_Retention ==
    [][Saves =>
         LET fresh == SelectSeq(new_domains,
                                LAMBDA d : /\ d \notin DomainsOf(stored)
                                           /\ Verdicts[HAS_LEVENSHTEIN][d].suspicious)
             all == stored \o Added
             kept == IF Len(all) > KeepLatest THEN KeepLatest ELSE Len(all)
         IN  /\ SubSeq(existing, 1, Len(stored)) = stored
             /\ DomainSeq(Added) = fresh
             /\ Len(stored') = kept
             /\ \A i \in 1..kept : stored'[i] = all[Len(all) - kept + i]]_vars

\* C3 witness: a run has saved a history of KeepLatest entries after appending two
\* entries or more and dropping the oldest.
C3_Witness ==
    /\ pc = "done"
    /\ Len(stored) = KeepLatest
    /\ added_count >= 2
    /\ last_dropped # {}
    /\ stored[KeepLatest].date[1] = runs

\* C4: a candidate whose domain is in the history loaded by the run is passed
\* over: it is not classified, nothing is appended, written or saved; and no
\* pass through the loop changes an entry that is already in the list.
C4_KnownSkipped ==
    [][/\ (InLoop /\ new_domains[pos] \in DomainsOf(stored))
            => /\ result' = result
               /\ existing' = existing
               /\ pages' = pages
               /\ stored' = stored
               /\ pc' = pc
               /\ pos' = pos + 1
       /\ (pc = "loop" /\ pc' # "done")
            => SubSeq(existing', 1, Len(existing)) = existing]_vars

\* C4 witness: the loop has just passed over a candidate that is in the
\* loaded history.
C4_Witness ==
    /\ pc = "loop"
    /\ pos > 1
    /\ new_domains[pos - 1] \in DomainsOf(stored)

\* C5 as claimed: a domain whose entry has been dropped from the history
\* never has an entry in it again.
C5_CreatedOnce == DomainsOf(stored) \cap dropped = {}

\* C5 amended: an entry is appended only for a domain that has no entry in
\* the history the run loaded; the history changes only when a run saves,
\* and what it saves is entries of the loaded history, unchanged, in order
\* and without a gap up to the newest, followed by the entries appended.
C5_CreatedOncePerStay ==
    [][/\ Len(existing') = Len(existing) + 1
            => existing'[Len(existing')].domain \notin DomainsOf(stored)
       /\ ~Saves => stored' = stored
       /\ Saves => \E k \in 0..Len(stored) :
                       stored' = SubSeq(stored, k + 1, Len(stored)) \o
                                 SubSeq(stored', Len(stored) - k + 1, Len(stored'))
                       /\ \A i \in (Len(stored) - k + 1)..Len(stored') :
                              /\ stored'[i].date[1] = runs
                              /\ stored'[i].domain \notin DomainsOf(stored)]_vars

\* C5 witness: a domain whose entry was dropped has an entry again, made by
\* a later run.
C5_Witness ==
    /\ pc = "done"
    /\ \E i \in 1..Len(stored) :
           /\ stored[i].domain \in dropped
           /\ stored[i].date[1] = runs

\* C6 as claimed: a run ends only after its last candidate, with every entry
\* it appended saved.
C6_DomainsIsolated ==
    pc \in {"done", "crashed"} => (pos > Len(new_domains) /\ stored = existing)

\* the output of the brand test: brand_match is there exactly when
\* brand_similarity is there and is 0.8 or more
BrandFieldsAgree(r) ==
    /\ r.brand_match # NONE <=>
          (IF r.brand_similarity = NONE THEN FALSE
           ELSE r.brand_similarity[1] >= 80)
    /\ r.brand_match = NONE => r.brand_similarity = NONE

\* the brand of r is the scorer's best brand for `domain`, which reaches 0.8
BrandIsBest(r, domain) ==
    r.brand_match # NONE =>
        LET best == BestBrands[HAS_LEVENSHTEIN][domain]
        IN  r.brand_match = best[1] /\ 5 * best[2][1] >= 4 * best[2][2]

\* C10: in the verdict of a suspicious candidate and in every entry of the
\* list and of the stored history, brand_match is there exactly when
\* brand_similarity is there and is 0.8 or more, and a best brand under 0.8
\* is in neither.
C10_BrandFields ==
    /\ result # NONE =>
          (IF result[1].suspicious
           THEN /\ BrandFieldsAgree(result[1])
                /\ \E j \in 1..Len(new_domains) : BrandIsBest(result[1], new_domains[j])
           ELSE TRUE)
    /\ \A i \in 1..Len(existing) :
          BrandFieldsAgree(existing[i]) /\ BrandIsBest(existing[i], existing[i].domain)
    /\ \A i \in 1..Len(stored) :
          BrandFieldsAgree(stored[i]) /\ BrandIsBest(stored[i], stored[i].domain)

\* C10 witness: with the edit distance at hand, an entry has been appended
\* for a domain suspicious by its keywords whose best brand is under 0.8.
C10_Witness ==
    /\ HAS_LEVENSHTEIN
    /\ pc = "loop"
    /\ pos > 1
    /\ result # NONE
    /\ existing # <<>>
    /\ existing[Len(existing)].domain = new_domains[pos - 1]
    /\ existing[Len(existing)].brand_match = NONE
    /\ BestBrands[TRUE][new_domains[pos - 1]][1] # NONE

(***************************************************************************)
(* Properties of calculate_threat_score, under SpecScore                   *)
(***************************************************************************)
\* C7: the score is a whole number of 0..100, and is the sum of 25 for mx,
\* floor(35 * brand_similarity), 5 a keyword up to 25, and 15 when a keyword
\* is high-risk, cut at 100.
C7_ScoreFormula ==
    s_score # NONE =>
        LET e == s_entry[1]
            hundredths == IF e.brand_similarity = NONE THEN 0 ELSE e.brand_similarity[1]
            n == Len(e.keywords)
            risky == \E i \in 1..n :
                        e.keywords[i] \in {"login", "password", "passwd", "bank",
                                           "crypto", "wallet", "verify", "secure"}
            sum == (IF e.mx THEN 25 ELSE 0) + ((35 * hundredths) \div 100)
                   + (IF 5 * n < 25 THEN 5 * n ELSE 25) + (IF risky THEN 15 ELSE 0)
        IN  /\ s_score[1] \in 0..100
            /\ s_score[1] = (IF sum > 100 THEN 100 ELSE sum)
            /\ (e.mx /\ hundredths = 100 /\ n >= 5 /\ risky) => s_score[1] = 100
            /\ (~e.mx /\ hundredths = 0 /\ n = 0) => s_score[1] = 0

\* C7 witness: the entry (mx, 1.0, five keywords with high-risk ones) has
\* been scored 100.
C7_Witness ==
    /\ s_score = Some(100)
    /\ s_entry[1].mx
    /\ s_entry[1].brand_similarity = Some(100)
    /\ s_entry[1].keywords = <<"login", "password", "bank", "crypto", "verify">>

LevelRank(level) ==
    CASE level = "LOW" -> 0
      [] level = "MEDIUM" -> 1
      [] level = "HIGH" -> 2
      [] level = "CRITICAL" -> 3

\* C8: one more high-risk keyword, or a larger brand_similarity, lowers
\* neither the score nor the level.
C8_Monotonic ==
    [][(s_score # NONE /\ s_score' # NONE)
          => /\ s_score'[1] >= s_score[1]
             /\ LevelRank(s_level'[1]) >= LevelRank(s_level[1])]_vars

\* C8 witness: an entry that has had a high-risk keyword appended, past the
\* keywords an entry starts with, and has been scored.
C8_Witness ==
    /\ s_score # NONE
    /\ Len(s_entry[1].keywords) = MaxKeywords + 1
    /\ s_entry[1].keywords[MaxKeywords + 1] \in Range(high_risk)

(***************************************************************************)
(* Properties of is_suspicious, under SpecClassify                         *)
(***************************************************************************)
\* C9: the verdict is suspicious exactly when a keyword of KEYWORDS is in the
\* domain or the brand scorer returns a brand with a similarity of 0.8 or
\* more; then `keywords` is the keywords that are in the domain, in the order
\* of KEYWORDS; a verdict that is not suspicious has no other field.
C9_Verdict ==
    c_result # NONE =>
        LET v == c_result[1]
            best == calculate_brand_similarity(c_domain, HAS_LEVENSHTEIN)
            hits == {i \in 1..Len(KEYWORDS) : Contains(KEYWORDS[i], c_domain)}
        IN  /\ v.suspicious <=>
                  (hits # {} \/ (best[1] # NONE /\ 5 * best[2][1] >= 4 * best[2][2]))
            /\ IF v.suspicious
               THEN /\ Len(v.keywords) = Cardinality(hits)
                    /\ \A j \in 1..Len(v.keywords) :
                          \E i \in hits :
                              /\ v.keywords[j] = KEYWORDS[i]
                              /\ Cardinality({h \in hits : h < i}) = j - 1
               ELSE DOMAIN v = {"suspicious"}

\* C9 witness: a domain with two keywords in it or more has been found
\* suspicious.
C9_Witness ==
    /\ c_result # NONE
    /\ c_result[1].suspicious
    /\ Len(c_result[1].keywords) >= 2

(***************************************************************************)
(* Properties of calculate_brand_similarity, under SpecBrand               *)
(***************************************************************************)
\* the base label of d: d itself when it has no dot, else the label between
\* the last dot and the dot before it (or the start of d)
IsBaseLabel(base, d) ==
    IF \A i \in 1..Len(d) : SubSeq(d, i, i) # "." THEN base = d
    ELSE \E j \in 1..Len(d) :
            /\ SubSeq(d, j, j) = "."
            /\ \A k \in (j + 1)..Len(d) : SubSeq(d, k, k) # "."
            /\ \E i \in 0..(j - 1) :
                  /\ i = 0 \/ SubSeq(d, i, i) = "."
                  /\ \A k \in (i + 1)..(j - 1) : SubSeq(d, k, k) # "."
                  /\ base = SubSeq(d, i + 1, j - 1)

\* the positions in BRANDS of the brands that are in the base label of d
BrandsIn(d) == {i \in 1..Len(BRANDS) : Contains(BRANDS[i], get_domain_base(d))}

\* C11 as claimed, where the edit distance is at hand: for every brand that is
\* in the base label of the domain, the scorer returns that brand with 1.0.
C11_EveryContainedBrand ==
    (HAS_LEVENSHTEIN /\ b_result # NONE) =>
        \A i \in BrandsIn(b_domain) : b_result[1] = <<Some(BRANDS[i]), <<1, 1>>>>

\* C11 amended: where the edit distance is at hand and the base label of the
\* domain holds a brand, the scorer returns 1.0 with the first brand of
\* BRANDS, in lexicon order, that the base label holds; where the edit
\* distance is missing it returns (None, 0) for every domain.
C11_FirstContainedBrand ==
    b_result # NONE =>
        /\ IsBaseLabel(get_domain_base(b_domain), b_domain)
        /\ IF ~HAS_LEVENSHTEIN THEN b_result[1] = <<NONE, <<0, 1>>>>
           ELSE BrandsIn(b_domain) # {} =>
                  \E i \in BrandsIn(b_domain) :
                      /\ \A j \in BrandsIn(b_domain) : i <= j
                      /\ b_result[1] = <<Some(BRANDS[i]), <<1, 1>>>>

\* C11 witness: with the edit distance at hand, the scorer has returned 1.0
\* for a domain whose base label holds two brands, the one it returned the
\* later of the two in the label.
C11_Witness ==
    /\ HAS_LEVENSHTEIN
    /\ b_result # NONE
    /\ b_domain = "attups.com"
    /\ Cardinality(BrandsIn(b_domain)) = 2
    /\ b_result[1] = <<Some("ups"), <<1, 1>>>>

=============================================================================
